---- MODULE Spec2Model ----
(***************************************************************************)
(* Review service (app/routers/reviews.py) and payment initiator           *)
(* (app/payments.py) of the store_fastapi backend.                         *)
(*                                                                         *)
(* The database is PostgreSQL reached through asyncpg with the engine's    *)
(* default isolation level (app/database.py:20-23), i.e. READ COMMITTED:   *)
(* every statement of a transaction reads the rows committed at the time   *)
(* the statement runs, overlaid with the transaction's own flushed writes. *)
(* A request handler is a sequence of awaited statements; every await is a *)
(* point where another request may run.                                    *)
(***************************************************************************)
EXTENDS Integers, Sequences, FiniteSets, TLC

\* ---------------------------------------------------------------- bounds
NumSessions == 2      \* request handlers that may be in flight together
MaxReviews == 2       \* values the reviews.id sequence may hand out
MaxCalls == 2         \* invocations of create_yookassa_payment

Sessions == 1..NumSessions
Calls == 1..MaxCalls

\* ------------------------------------------------------------ input sets
Users == {1, 2, 3}
ProductIds == {1, 2}             \* rows of the products table
WithdrawnProductIds == {2}       \* products the product service soft-deletes
RequestedProductIds == {1, 2, 3} \* product ids a request may name
RequestedReviewIds == 1..MaxReviews
Grades == {2, 4}

\* users.role; user 3 is an administrator, users 1 and 2 are buyers
Role == [u \in Users |-> IF u = 3 THEN "admin" ELSE "buyer"]

VARIABLES
    products,       \* committed products rows: id -> [is_active, rating]
    reviews,        \* committed reviews rows: id -> [user_id, product_id, grade, is_active]
    seq,            \* next value of the reviews.id sequence
    sess,           \* per request handler: its position and its session's state
    resp,           \* what the step just taken answered to its caller
    shopId,         \* YOOKASSA_SHOP_ID
    secretKey,      \* YOOKASSA_SECRET_KEY
    Configuration,  \* yookassa.Configuration, the SDK's global settings
    calls,          \* per invocation of create_yookassa_payment: its position
    gateway         \* the Payment.create submissions the gateway has received

reviewVars == <<products, reviews, seq, sess, resp>>
payVars == <<shopId, secretKey, Configuration, calls, gateway>>
vars == <<products, reviews, seq, sess, resp,
          shopId, secretKey, Configuration, calls, gateway>>

\* ------------------------------------------------------------- numbers
\* A rating is an exact fraction <<numerator, denominator>> in lowest terms.
RECURSIVE GCD(_, _)
GCD(a, b) == IF b = 0 THEN a ELSE GCD(b, a % b)

Fraction(n, d) == <<n \div GCD(n, d), d \div GCD(n, d)>>

Zero == <<0, 1>>     \* the float 0.0

RECURSIVE SumGrades(_, _)
SumGrades(rows, ids) ==
    IF ids = {} THEN 0
    ELSE LET i == CHOOSE x \in ids : TRUE
         IN rows[i].grade + SumGrades(rows, ids \ {i})

\* --------------------------------------------------- sessions and views
Idle == [pc |-> "idle", user |-> 0, product |-> 0, grade |-> 0, rid |-> 0,
         avg |-> Zero, loaded |-> Zero]

\* user is the caller, recorded for the answers of DELETE only
NoResp == [op |-> "none", status |-> 0, user |-> 0, product |-> 0, rid |-> 0, body |-> {}]

Answer(op, status, product, rid, body) ==
    [op |-> op, status |-> status, user |-> 0, product |-> product, rid |-> rid,
     body |-> body]

\* The reviews rows a statement of session s reads: the committed rows
\* overlaid with the writes s has flushed and not yet committed.
FlushedInsert(s) == sess[s].pc \in {"c_flushed", "c_avgd"}
FlushedUpdate(s) == sess[s].pc \in {"d_flushed", "d_avgd", "d_loaded"}

\* Mutant of View: the handler removes the row (db.delete) instead of
\* clearing is_active.
ViewHardDelete(s) ==
    IF FlushedInsert(s)
    THEN (sess[s].rid :> [user_id |-> sess[s].user, product_id |-> sess[s].product,
                          grade |-> sess[s].grade, is_active |-> TRUE]) @@ reviews
    ELSE IF FlushedUpdate(s)
    THEN [i \in DOMAIN reviews \ {sess[s].rid} |-> reviews[i]]
    ELSE reviews

View(s) ==
    IF FlushedInsert(s)
    THEN (sess[s].rid :> [user_id |-> sess[s].user, product_id |-> sess[s].product,
                          grade |-> sess[s].grade, is_active |-> TRUE]) @@ reviews
    ELSE IF FlushedUpdate(s)
    THEN [reviews EXCEPT ![sess[s].rid].is_active = FALSE]
    ELSE reviews

\* async_session_maker gives every request a session of its own; sessions are
\* interchangeable, a request takes the lowest-numbered free one.
FreeSession(s) ==
    /\ sess[s].pc = "idle"
    /\ \A t \in Sessions : t < s => sess[t].pc # "idle"

ActiveOf(rows, p) == {i \in DOMAIN rows : rows[i].product_id = p /\ rows[i].is_active}

\* Mutant of AvgRating: the AVG query without its is_active filter.
AvgRatingAllRows(rows, p) ==
    LET a == {i \in DOMAIN rows : rows[i].product_id = p}
    IN IF a = {} THEN Zero ELSE Fraction(SumGrades(rows, a), Cardinality(a))

\* select(func.avg(Review.grade)).where(product_id == p, is_active == True)
\* followed by `result.scalar() or 0.0`: AVG over no rows is NULL, and NULL
\* (like a zero average) becomes 0.0.
AvgRating(rows, p) ==
    LET a == ActiveOf(rows, p)
    IN IF a = {} THEN Zero
       ELSE LET f == Fraction(SumGrades(rows, a), Cardinality(a))
            IN IF f[1] = 0 THEN Zero ELSE f

\* What commit() flushes for the product: `product.rating = avg_rating` emits
\* an UPDATE only when the value differs from the one the session loaded.
ProductsAfterCommit(s) ==
    IF sess[s].avg # sess[s].loaded
    THEN [products EXCEPT ![sess[s].product].rating = sess[s].avg]
    ELSE products

\* The UPDATE of a reviews row waits while another transaction holds the
\* row's lock, i.e. has flushed an UPDATE of it and not yet ended.
RowLocked(s, rid) ==
    \E t \in Sessions \ {s} : FlushedUpdate(t) /\ sess[t].rid = rid

\* Mutant of ProductFound: the product lookup without its is_active filter.
ProductExists(p) == p \in DOMAIN products

ProductFound(p) == p \in DOMAIN products /\ products[p].is_active

\* Mutant of ReviewFound: the review lookup without its is_active filter.
ReviewExists(rid) == rid \in DOMAIN reviews

ReviewFound(rid) == rid \in DOMAIN reviews /\ reviews[rid].is_active

\* Mutant of MayDelete: the ownership test left out.
MayDeleteUnchecked(u, rid) == TRUE

MayDelete(u, rid) == reviews[rid].user_id = u \/ Role[u] = "admin"

ActiveReviews == {i \in DOMAIN reviews : reviews[i].is_active}

\* ------------------------------------------------------------ GET /reviews/
get_all_reviews(s) ==
    /\ FreeSession(s)
    /\ resp' = Answer("list_all", 200, 0, 0, ActiveReviews)
    /\ UNCHANGED <<products, reviews, seq, sess>>
    /\ UNCHANGED payVars

\* ------------------------------------- GET /reviews/products/{product_id}/
get_all_reviews_of_product(s, p) ==
    /\ FreeSession(s)
    /\ resp' = IF ProductFound(p)
               THEN Answer("list_product", 200, p, 0, ActiveOf(reviews, p))
               ELSE Answer("list_product", 404, p, 0, {})
    /\ UNCHANGED <<products, reviews, seq, sess>>
    /\ UNCHANGED payVars

\* ----------------------------------------------------------- POST /reviews/
\* lines 53-57: the product lookup and the 404
CreateBegin(s, u, p, g) ==
    /\ FreeSession(s)
    /\ Role[u] = "buyer"
    /\ IF ProductFound(p)
       THEN /\ seq <= MaxReviews
            /\ sess' = [sess EXCEPT ![s] = [Idle EXCEPT !.pc = "c_checked", !.user = u,
                                              !.product = p, !.grade = g,
                                              !.loaded = products[p].rating]]
            /\ resp' = NoResp
       ELSE /\ sess' = sess
            /\ resp' = Answer("create", 404, p, 0, {})
    /\ UNCHANGED <<products, reviews, seq>>
    /\ UNCHANGED payVars

\* Mutant of CreateFlush: the INSERT is committed on its own (a commit right
\* after db.add, or a connection in autocommit mode).
CreateFlushAutocommit(s) ==
    /\ sess[s].pc = "c_checked"
    /\ seq <= MaxReviews
    /\ sess' = [sess EXCEPT ![s].pc = "c_flushed", ![s].rid = seq]
    /\ seq' = seq + 1
    /\ reviews' = (seq :> [user_id |-> sess[s].user, product_id |-> sess[s].product,
                           grade |-> sess[s].grade, is_active |-> TRUE]) @@ reviews
    /\ resp' = NoResp
    /\ UNCHANGED products
    /\ UNCHANGED payVars

\* lines 60-64: db.add, then the autoflush of db.execute sends the INSERT
CreateFlush(s) ==
    /\ sess[s].pc = "c_checked"
    /\ seq <= MaxReviews
    /\ sess' = [sess EXCEPT ![s].pc = "c_flushed", ![s].rid = seq]
    /\ seq' = seq + 1
    /\ resp' = NoResp
    /\ UNCHANGED <<products, reviews>>
    /\ UNCHANGED payVars

\* lines 64-72: the AVG query, `or 0.0`, product.rating = avg_rating
CreateAvg(s) ==
    /\ sess[s].pc = "c_flushed"
    /\ sess' = [sess EXCEPT ![s].pc = "c_avgd",
                            ![s].avg = AvgRating(View(s), sess[s].product)]
    /\ resp' = NoResp
    /\ UNCHANGED <<products, reviews, seq>>
    /\ UNCHANGED payVars

\* lines 73-75: commit, refresh, 201 with the stored review
CreateCommit(s) ==
    /\ sess[s].pc = "c_avgd"
    /\ reviews' = View(s)
    /\ products' = ProductsAfterCommit(s)
    /\ resp' = Answer("create", 201, sess[s].product, sess[s].rid, {sess[s].rid})
    /\ sess' = [sess EXCEPT ![s] = Idle]
    /\ UNCHANGED seq
    /\ UNCHANGED payVars

\* ------------------------------------------------ DELETE /reviews/{review_id}
\* lines 85-92: the review lookup, the 404, then the 403
DeleteBegin(s, u, rid) ==
    /\ FreeSession(s)
    /\ IF ~ReviewFound(rid)
       THEN /\ sess' = sess
            /\ resp' = [Answer("delete", 404, 0, rid, {}) EXCEPT !.user = u]
       ELSE IF ~MayDelete(u, rid)
       THEN /\ sess' = sess
            /\ resp' = [Answer("delete", 403, reviews[rid].product_id, rid, {})
                        EXCEPT !.user = u]
       ELSE /\ sess' = [sess EXCEPT ![s] = [Idle EXCEPT !.pc = "d_checked", !.user = u,
                                              !.rid = rid,
                                              !.product = reviews[rid].product_id]]
            /\ resp' = NoResp
    /\ UNCHANGED <<products, reviews, seq>>
    /\ UNCHANGED payVars

\* lines 94-96: review.is_active = False, then the autoflush sends the UPDATE
DeleteFlush(s) ==
    /\ sess[s].pc = "d_checked"
    /\ ~RowLocked(s, sess[s].rid)
    /\ sess' = [sess EXCEPT ![s].pc = "d_flushed"]
    /\ resp' = NoResp
    /\ UNCHANGED <<products, reviews, seq>>
    /\ UNCHANGED payVars

\* lines 96-102: the AVG query and `or 0.0`
DeleteAvg(s) ==
    /\ sess[s].pc = "d_flushed"
    /\ sess' = [sess EXCEPT ![s].pc = "d_avgd",
                            ![s].avg = AvgRating(View(s), sess[s].product)]
    /\ resp' = NoResp
    /\ UNCHANGED <<products, reviews, seq>>
    /\ UNCHANGED payVars

\* lines 103-104: db.get loads the product row, product.rating = avg_rating
DeleteGet(s) ==
    /\ sess[s].pc = "d_avgd"
    /\ sess' = [sess EXCEPT ![s].pc = "d_loaded",
                            ![s].loaded = products[sess[s].product].rating]
    /\ resp' = NoResp
    /\ UNCHANGED <<products, reviews, seq>>
    /\ UNCHANGED payVars

\* lines 105-107: commit, refresh, 200 with the message body
DeleteCommit(s) ==
    /\ sess[s].pc = "d_loaded"
    /\ reviews' = View(s)
    /\ products' = ProductsAfterCommit(s)
    /\ resp' = [Answer("delete", 200, sess[s].product, sess[s].rid, {})
                EXCEPT !.user = sess[s].user]
    /\ sess' = [sess EXCEPT ![s] = Idle]
    /\ UNCHANGED seq
    /\ UNCHANGED payVars

\* A crash of the process or an error raised between two statements: the
\* session is closed without commit and the database rolls the transaction
\* back. Values taken from the id sequence are not given back.
Abort(s) ==
    /\ sess[s].pc # "idle"
    /\ sess' = [sess EXCEPT ![s] = Idle]
    /\ resp' = Answer("abort", 500, 0, 0, {})
    /\ UNCHANGED <<products, reviews, seq>>
    /\ UNCHANGED payVars

\* The product service (outside this subsystem) soft-deletes a product; it
\* never writes the rating.
DeactivateProduct(p) ==
    /\ products[p].is_active
    /\ products' = [products EXCEPT ![p].is_active = FALSE]
    /\ resp' = NoResp
    /\ UNCHANGED <<reviews, seq, sess>>
    /\ UNCHANGED payVars

\* ------------------------------------------------------- payment initiator
OrderIds == {42, 43}
\* Decimal amounts in thousandths of a rouble: 100.000, 1.005 and 1.015
Amounts == {100000, 1005, 1015}
\* What the gateway may answer to a submission: a payment with or without a
\* confirmation URL, or an error raised by Payment.create.
Outcomes == {"pending_url", "pending_no_url", "error"}

\* The values str(uuid4()) may return, each a 36-character string
KeySpace == 1..(MaxCalls + 1)

\* `not X` of a setting read from the environment: unset (None) or empty
Missing(x) == x \in {"None", ""}

\* Mutant of ConfigMissing: `and` in place of `or`.
ConfigMissingBoth == Missing(shopId) /\ Missing(secretKey)

\* line 24: `not YOOKASSA_SHOP_ID or not YOOKASSA_SECRET_KEY`
ConfigMissing == Missing(shopId) \/ Missing(secretKey)

\* f"{amount:.2f}" of a Decimal: two decimals, ties to even; the result is
\* the number of kopecks the string spells.
Format2f(mills) ==
    LET q == mills \div 10
        r == mills % 10
    IN IF r > 5 \/ (r = 5 /\ q % 2 = 1) THEN q + 1 ELSE q

\* lines 34-69: the request body (the fields that vary with the inputs)
Payload(order, amount) ==
    [value |-> Format2f(amount), order_id |-> order, item_value |-> Format2f(amount)]

IdleCall == [pc |-> "idle", payload |-> Payload(0, 0), result |-> "None"]

KeysSeen == {gateway[i].key : i \in 1..Len(gateway)}

\* Mutant of IdempotenceKeys: the key is generated once, when the module is
\* loaded, and reused by every call.
StaleKey(c) == {1}

\* line 75: str(uuid4()), a random 122-bit value drawn anew at every call of
\* _request; a draw never repeats an earlier one.
IdempotenceKeys(c) == KeySpace \ KeysSeen

\* lines 24-69 and the dispatch of line 78, up to the await
create_yookassa_payment(c, order, amount) ==
    /\ calls[c].pc = "idle"
    /\ IF ConfigMissing
       THEN /\ calls' = [calls EXCEPT ![c].pc = "raised_runtime_error"]
            /\ Configuration' = Configuration
       ELSE /\ Configuration' = [account_id |-> shopId, secret_key |-> secretKey]
            /\ calls' = [calls EXCEPT ![c].pc = "dispatched",
                                      ![c].payload = Payload(order, amount)]
    /\ UNCHANGED <<shopId, secretKey, gateway>>
    /\ UNCHANGED reviewVars

\* lines 72-91: the worker thread runs Payment.create(payload, str(uuid4()))
\* once; its result is returned, its exception reaches the caller.
request(c, k, outcome) ==
    /\ calls[c].pc = "dispatched"
    /\ k \in IdempotenceKeys(c)
    /\ gateway' = Append(gateway, [call |-> c, key |-> k, payload |-> calls[c].payload,
                                   account_id |-> Configuration.account_id])
    /\ calls' = [calls EXCEPT ![c].pc = IF outcome = "error" THEN "raised_gateway_error"
                                         ELSE "returned",
                              ![c].result = outcome]
    /\ UNCHANGED <<shopId, secretKey, Configuration>>
    /\ UNCHANGED reviewVars

\* ------------------------------------------------------- specifications
AllIdle == \A t \in Sessions : sess[t].pc = "idle"

InitReviews ==
    /\ products = [p \in ProductIds |-> [is_active |-> TRUE, rating |-> Zero]]
    /\ reviews = <<>>
    /\ seq = 1
    /\ sess = [s \in Sessions |-> Idle]
    /\ resp = NoResp

InitPayIdle ==
    /\ shopId = "shop"
    /\ secretKey = "secret"
    /\ Configuration = [account_id |-> "None", secret_key |-> "None"]
    /\ calls = [c \in Calls |-> IdleCall]
    /\ gateway = <<>>

Init == InitReviews /\ InitPayIdle

\* Requests served concurrently, each in its own transaction.
Next ==
    \/ \E s \in Sessions : get_all_reviews(s)
    \/ \E s \in Sessions, p \in RequestedProductIds : get_all_reviews_of_product(s, p)
    \/ \E s \in Sessions, u \in Users, p \in RequestedProductIds, g \in Grades :
          CreateBegin(s, u, p, g)
    \/ \E s \in Sessions : CreateFlush(s)
    \/ \E s \in Sessions : CreateAvg(s)
    \/ \E s \in Sessions : CreateCommit(s)
    \/ \E s \in Sessions, u \in Users, rid \in RequestedReviewIds : DeleteBegin(s, u, rid)
    \/ \E s \in Sessions : DeleteFlush(s)
    \/ \E s \in Sessions : DeleteAvg(s)
    \/ \E s \in Sessions : DeleteGet(s)
    \/ \E s \in Sessions : DeleteCommit(s)
    \/ \E s \in Sessions : Abort(s)
    \/ \E p \in WithdrawnProductIds : DeactivateProduct(p)

Spec == Init /\ [][Next]_vars

\* Requests served one at a time: a request starts only when none is in flight.
SeqNext ==
    \/ \E s \in Sessions : AllIdle /\ get_all_reviews(s)
    \/ \E s \in Sessions, p \in RequestedProductIds :
          AllIdle /\ get_all_reviews_of_product(s, p)
    \/ \E s \in Sessions, u \in Users, p \in RequestedProductIds, g \in Grades :
          AllIdle /\ CreateBegin(s, u, p, g)
    \/ \E s \in Sessions : CreateFlush(s)
    \/ \E s \in Sessions : CreateAvg(s)
    \/ \E s \in Sessions : CreateCommit(s)
    \/ \E s \in Sessions, u \in Users, rid \in RequestedReviewIds :
          AllIdle /\ DeleteBegin(s, u, rid)
    \/ \E s \in Sessions : DeleteFlush(s)
    \/ \E s \in Sessions : DeleteAvg(s)
    \/ \E s \in Sessions : DeleteGet(s)
    \/ \E s \in Sessions : DeleteCommit(s)
    \/ \E s \in Sessions : Abort(s)
    \/ \E p \in WithdrawnProductIds : AllIdle /\ DeactivateProduct(p)

SpecSeq == Init /\ [][SeqNext]_vars

InitPay ==
    /\ shopId \in {"None", "", "shop"}
    /\ secretKey \in {"None", "", "secret"}
    /\ Configuration = [account_id |-> "None", secret_key |-> "None"]
    /\ calls = [c \in Calls |-> IdleCall]
    /\ gateway = <<>>
    /\ InitReviews

NextPay ==
    \/ \E c \in Calls, order \in OrderIds, amount \in Amounts :
          create_yookassa_payment(c, order, amount)
    \/ \E c \in Calls, k \in KeySpace, outcome \in Outcomes : request(c, k, outcome)

SpecPay == InitPay /\ [][NextPay]_vars

\* ================================================================ properties
\* r is the arithmetic mean of grade over the active rows of product p
\* (0.0 when there is none), stated by cross-multiplication.
IsMeanOf(r, rows, p) ==
    LET a == {i \in DOMAIN rows : rows[i].product_id = p /\ rows[i].is_active = TRUE}
    IN IF a = {} THEN r = <<0, 1>>
       ELSE r[2] > 0 /\ r[1] * Cardinality(a) = SumGrades(rows, a) * r[2]

Succeeded(r) ==
    \/ r.op = "create" /\ r.status = 201
    \/ r.op = "delete" /\ r.status = 200

RatingsOf(ps) == [p \in DOMAIN ps |-> ps[p].rating]

\* C1: with requests served one at a time, right after a successful create or
\* soft-delete the stored rating of the affected product is the mean of grade
\* over exactly its active reviews: the created review is among them, the
\* soft-deleted one is not.
C1_RatingIsMeanAfterMutation ==
    Succeeded(resp) =>
        /\ IsMeanOf(products[resp.product].rating, reviews, resp.product)
        /\ resp.rid \in DOMAIN reviews
        /\ reviews[resp.rid].product_id = resp.product
        /\ reviews[resp.rid].is_active = (resp.op = "create")

\* The scenario of C1: grades 4 and 2 were active, the grade-2 review has just
\* been soft-deleted and the rating reads 4.0.
C1_Witness ==
    /\ resp.op = "delete" /\ resp.status = 200
    /\ reviews[resp.rid].grade = 2
    /\ \E i \in DOMAIN reviews :
          /\ reviews[i].product_id = resp.product
          /\ reviews[i].is_active
          /\ reviews[i].grade = 4
    /\ products[resp.product].rating = <<4, 1>>

\* C2: in every reachable state a product without active reviews has rating 0.0.
C2_NoActiveReviewsMeansZero ==
    \A p \in DOMAIN products :
        (\A i \in DOMAIN reviews : reviews[i].product_id = p => ~reviews[i].is_active)
            => products[p].rating = <<0, 1>>

\* C3: the review mutation and the rating update become durable in one step,
\* the commit: a step that changes the stored reviews or a stored rating is
\* the commit of a create or soft-delete, changes the reviews, and leaves the
\* affected product's rating matching them and every other rating as it was;
\* every other step, a crash or error before the commit included, leaves the
\* review rows and the ratings as they were.
C3_MutationAndRatingCommitTogether ==
    [][ /\ (reviews' # reviews \/ RatingsOf(products') # RatingsOf(products)) =>
              /\ Succeeded(resp')
              /\ reviews' # reviews
              /\ IsMeanOf(products'[resp'.product].rating, reviews', resp'.product)
              /\ \A p \in DOMAIN products \ {resp'.product} :
                    products'[p].rating = products[p].rating
        /\ resp'.op = "abort" =>
              reviews' = reviews /\ RatingsOf(products') = RatingsOf(products)
      ]_vars

\* A request crashed after its INSERT was flushed: the id was taken from the
\* sequence and no row was stored.
C3_Witness ==
    /\ resp.op = "abort"
    /\ seq = 2
    /\ reviews = <<>>
    /\ \A p \in DOMAIN products : products[p].rating = <<0, 1>>

\* C4: once every concurrent create / soft-delete request has ended, each
\* product's stored rating is the mean of grade over its active reviews.
C4_RatingIsMeanWhenQuiescent ==
    AllIdle => \A p \in DOMAIN products : IsMeanOf(products[p].rating, reviews, p)

\* C5: a create request naming a product that does not exist or is inactive
\* is answered 404, stores no review row (neither committed nor pending) and
\* leaves every product as it was; no create request goes past the lookup
\* for such a product.
C5_CreateOnMissingProductIs404 ==
    [][ /\ (resp'.op = "create" /\ resp'.status = 404) =>
              /\ ~(resp'.product \in DOMAIN products /\ products[resp'.product].is_active)
              /\ UNCHANGED <<products, reviews, seq, sess>>
        /\ \A s \in Sessions :
              (sess[s].pc = "idle" /\ sess'[s].pc = "c_checked") =>
                  /\ sess'[s].product \in DOMAIN products
                  /\ products[sess'[s].product].is_active
      ]_vars

\* A create request for an existing but inactive product that has reviews
\* was just answered 404.
C5_Witness ==
    /\ resp.op = "create" /\ resp.status = 404
    /\ resp.product \in DOMAIN products
    /\ ~products[resp.product].is_active
    /\ \E i \in DOMAIN reviews : reviews[i].product_id = resp.product

\* C6: a soft-delete request on an existing active review by a caller who is
\* neither its author nor an admin is answered 403 and changes nothing; no
\* such request goes past the ownership test.
C6_DeleteByStrangerIs403 ==
    [][ /\ (resp'.op = "delete" /\ resp'.status = 403) =>
              /\ resp'.rid \in DOMAIN reviews
              /\ reviews[resp'.rid].is_active
              /\ reviews[resp'.rid].user_id # resp'.user
              /\ Role[resp'.user] # "admin"
              /\ UNCHANGED <<products, reviews, seq, sess>>
        /\ \A s \in Sessions :
              (sess[s].pc = "idle" /\ sess'[s].pc = "d_checked") =>
                  \/ reviews[sess'[s].rid].user_id = sess'[s].user
                  \/ Role[sess'[s].user] = "admin"
      ]_vars

\* A buyer who is not the author was just answered 403 on an active review.
C6_Witness ==
    /\ resp.op = "delete" /\ resp.status = 403
    /\ reviews[resp.rid].is_active
    /\ reviews[resp.rid].user_id # resp.user
    /\ products[resp.product].rating # <<0, 1>>

\* C7: no step removes a review row, changes its author, product or grade, or
\* sets its active flag back to true; after a successful soft-delete the row
\* is stored with active = false; the two listings answer exactly the active
\* rows, so an inactive row is in neither.
C7_SoftDeleteKeepsRow ==
    [][ /\ \A i \in DOMAIN reviews :
              /\ i \in DOMAIN reviews'
              /\ reviews'[i].user_id = reviews[i].user_id
              /\ reviews'[i].product_id = reviews[i].product_id
              /\ reviews'[i].grade = reviews[i].grade
              /\ reviews'[i].is_active => reviews[i].is_active
        /\ (resp'.op = "delete" /\ resp'.status = 200) =>
              /\ resp'.rid \in DOMAIN reviews
              /\ resp'.rid \in DOMAIN reviews'
              /\ ~reviews'[resp'.rid].is_active
        /\ (resp'.op = "list_all" /\ resp'.status = 200) =>
              \A i \in DOMAIN reviews' : i \in resp'.body <=> reviews'[i].is_active
        /\ (resp'.op = "list_product" /\ resp'.status = 200) =>
              \A i \in DOMAIN reviews' :
                  i \in resp'.body <=>
                      (reviews'[i].is_active /\ reviews'[i].product_id = resp'.product)
      ]_vars

\* A listing of all active reviews taken after a soft-delete: it names a
\* review and the soft-deleted row is stored.
C7_Witness ==
    /\ resp.op = "list_all"
    /\ resp.body # {}
    /\ \E i \in DOMAIN reviews : ~reviews[i].is_active

\* C8: a soft-delete request for a review that is not stored or is inactive
\* is answered 404 whoever calls and changes nothing: only a stored, active
\* review is answered 403 or lets the request go on, so a soft-delete started
\* after the review became inactive is answered 404.
C8_DeleteOfMissingReviewIs404 ==
    [][ /\ (resp'.op = "delete" /\ resp'.status = 404) =>
              /\ ~(resp'.rid \in DOMAIN reviews /\ reviews[resp'.rid].is_active)
              /\ UNCHANGED <<products, reviews, seq, sess>>
        /\ (resp'.op = "delete" /\ resp'.status = 403) =>
              resp'.rid \in DOMAIN reviews /\ reviews[resp'.rid].is_active
        /\ \A s \in Sessions :
              (sess[s].pc = "idle" /\ sess'[s].pc = "d_checked") =>
                  sess'[s].rid \in DOMAIN reviews /\ reviews[sess'[s].rid].is_active
      ]_vars

\* A user who is neither author nor admin was just answered 404 on a
\* soft-deleted review.
C8_Witness ==
    /\ resp.op = "delete" /\ resp.status = 404
    /\ resp.rid \in DOMAIN reviews
    /\ ~reviews[resp.rid].is_active
    /\ reviews[resp.rid].user_id # resp.user
    /\ Role[resp.user] = "buyer"

Submissions(c) == {i \in 1..Len(gateway) : gateway[i].call = c}

\* C9: when the shop id or the secret key is absent, no invocation gets past
\* the check: each one ends with the configuration error, nothing is
\* submitted to the gateway and the SDK's global configuration stays unset.
C9_MissingConfigFailsFirst ==
    (shopId \in {"None", ""} \/ secretKey \in {"None", ""}) =>
        /\ \A c \in Calls : calls[c].pc \in {"idle", "raised_runtime_error"}
        /\ gateway = <<>>
        /\ Configuration = [account_id |-> "None", secret_key |-> "None"]

\* The shop id alone is missing and an invocation has failed.
C9_Witness ==
    /\ shopId = "None"
    /\ secretKey = "secret"
    /\ \E c \in Calls : calls[c].pc = "raised_runtime_error"

\* C10: an invocation that reached the gateway has submitted exactly one
\* request, also when the gateway failed; one that has not, none; every
\* submitted key is a UUID string (so not empty) and no two submissions carry
\* the same key.
C10_OneSubmissionFreshKey ==
    /\ \A c \in Calls :
          Cardinality(Submissions(c)) =
              IF calls[c].pc \in {"returned", "raised_gateway_error"} THEN 1 ELSE 0
    /\ \A i \in 1..Len(gateway) : gateway[i].key \in KeySpace
    /\ \A i, j \in 1..Len(gateway) : i # j => gateway[i].key # gateway[j].key

\* Two invocations with identical inputs have both submitted, one of them
\* was answered with a gateway error.
C10_Witness ==
    /\ Len(gateway) = 2
    /\ gateway[1].payload = gateway[2].payload
    /\ gateway[1].call # gateway[2].call
    /\ \E c \in Calls : calls[c].pc = "raised_gateway_error"
    /\ \E c \in Calls : calls[c].pc = "returned"

====
